---- MODULE Spec2Model ----
(***************************************************************************)
(* Model of src/src/composites.rs: CompositeMakeService (a vector of       *)
(* (base path, child MakeService) pairs whose call() builds every child    *)
(* service through futures::future::join_all) and CompositeService (a      *)
(* vector of (base path, child Service) pairs whose call() forwards a      *)
(* request to the first child whose base path is a prefix of the request   *)
(* path, or answers with NotFound::not_found()).                           *)
(*                                                                         *)
(* Strings are sequences of one-character strings, so that                 *)
(* str::starts_with is computed, not assumed.                              *)
(***************************************************************************)
EXTENDS Integers, Sequences, FiniteSets, TLC

(***************************************************************************)
(* Bounds of the model.                                                    *)
(***************************************************************************)
\* number of CompositeMakeService::call invocations in one behaviour
MaxBuilds == 2

\* the child MakeService instances the application owns; each is one Box, so
\* it is in the vector at most once at a time and the vector is never longer
\* than this set is large
ChildFactories == {"m1", "m2"}
\* base paths the application registers
Prefixes == { <<>>, <<"/", "a">>, <<"/", "a", "b">> }
\* request paths
Paths == { <<"/", "a">>, <<"/", "a", "b">>, <<"/", "b">> }
\* targets (connection contexts) passed to CompositeMakeService::call
Targets == {"t1", "t2"}
\* statuses of the responses a child service gives itself; a child may answer
\* 404 on its own account
ChildStatuses == {200, 404}

(***************************************************************************)
(* Program constants.                                                      *)
(***************************************************************************)
\* hyper::StatusCode::NOT_FOUND
NOT_FOUND == 404

VARIABLES
    factory,      \* CompositeMakeService.inner: Seq of [path, make]
    registered,   \* history: the pairs pushed by the caller, in call order,
                  \* minus those the caller removed
    build,        \* the future returned by CompositeMakeService::call
    builds,       \* history: number of CompositeMakeService::call so far
    failedBuilds, \* history: ids of the builds that resolved to an error
    other,        \* the future returned by a CompositeMakeService::call made
                  \* for another connection while `build` may be in progress
    req           \* the request being handled by the built CompositeService

vars == <<factory, registered, build, builds, failedBuilds, other, req>>

(***************************************************************************)
(* Helpers on sequences.                                                   *)
(***************************************************************************)
RemoveAt(s, j) == SubSeq(s, 1, j - 1) \o SubSeq(s, j + 1, Len(s))

Range(s) == { s[i] : i \in 1..Len(s) }

\* variant of StartsWith: an empty base path matches nothing
StartsWithNonEmpty(path, prefix) ==
    /\ prefix # << >>
    /\ Len(prefix) <= Len(path)
    /\ SubSeq(path, 1, Len(prefix)) = prefix

\* str::starts_with: prefix is a literal prefix of path
StartsWith(path, prefix) ==
    /\ Len(prefix) <= Len(path)
    /\ SubSeq(path, 1, Len(prefix)) = prefix

(***************************************************************************)
(* CompositeMakeService: the vector and CompositeMakeService::call.        *)
(***************************************************************************)
\* CompositeMakeService::new: an empty vector
MakeServiceNew == << >>

\* variant of Push: the pair goes to the front
PushFront(inner, path, make) == << [path |-> path, make |-> make] >> \o inner

\* Vec::push through DerefMut: the pair goes to the end
Push(inner, path, make) == Append(inner, [path |-> path, make |-> make])

\* Vec::remove through DerefMut
Remove(inner, j) == RemoveAt(inner, j)

\* variant of ChildService: the child service is built once and shared by
\* the later builds
ChildServiceShared(make, target, bid) == [make |-> make, target |-> "t1", bid |-> 1]

\* the child Service that child MakeService `make` builds for `target`
\* in build number `bid`
ChildService(make, target, bid) == [make |-> make, target |-> target, bid |-> bid]

\* the error with which the build of child `make` fails
ChildError(make) == [make |-> make]

\* results of polling a child future
PollResults == {"NotReady", "Ready", "Err"}

\* variant of MakeServiceCall: sequential awaiting, only the first child
\* build is started by the call
MakeServiceCallSequential(inner, target, bid) ==
    [ i \in 1..Len(inner) |->
        [ path   |-> inner[i].path,
          svc    |-> ChildService(inner[i].make, target, bid),
          st     |-> IF i = 1 THEN "Pending" ELSE "NotStarted",
          polled |-> FALSE ] ]

\* the pairs of inner whose base path no earlier pair has
RECURSIVE FirstOfEachPath(_, _)
FirstOfEachPath(inner, seen) ==
    IF inner = << >> THEN << >>
    ELSE IF inner[1].path \in seen THEN FirstOfEachPath(Tail(inner), seen)
    ELSE << inner[1] >> \o FirstOfEachPath(Tail(inner), seen \cup {inner[1].path})

\* variant of MakeServiceCall: a pair whose base path repeats an earlier one
\* is left out
MakeServiceCallDedup(inner, target, bid) ==
    LET kept == FirstOfEachPath(inner, {})
    IN  [ i \in 1..Len(kept) |->
            [ path   |-> kept[i].path,
              svc    |-> ChildService(kept[i].make, target, bid),
              st     |-> "Pending",
              polled |-> FALSE ] ]

\* variant of MakeServiceCall: the vector is iterated from its end
MakeServiceCallReversed(inner, target, bid) ==
    [ i \in 1..Len(inner) |->
        [ path   |-> inner[Len(inner) + 1 - i].path,
          svc    |-> ChildService(inner[Len(inner) + 1 - i].make, target, bid),
          st     |-> "Pending",
          polled |-> FALSE ] ]

\* self.inner.iter().map(|(path, service)| service.call(target).map(|i| (path, i)))
\* collected by join_all: one pending element per pair, in vector order.
\* (The source writes `context` for the parameter `target`.)
\* svc is the value the element's future yields if it succeeds.
MakeServiceCall(inner, target, bid) ==
    [ i \in 1..Len(inner) |->
        [ path   |-> inner[i].path,
          svc    |-> ChildService(inner[i].make, target, bid),
          st     |-> "Pending",
          polled |-> FALSE ] ]

\* the child MakeService::call invocations behind a vector of elements, in
\* order: one per element whose future exists
RECURSIVE CallsOf(_)
CallsOf(elems) ==
    IF elems = << >> THEN << >>
    ELSE LET e == elems[1]
         IN  (IF e.st \in {"Pending", "Done"}
              THEN << [make |-> e.svc.make, target |-> e.svc.target] >>
              ELSE << >>) \o CallsOf(Tail(elems))

Min(S) == CHOOSE x \in S : \A y \in S : x <= y

\* variant of JoinAllPoll: a failed child is left out and the others are
\* collected
JoinAllPollPartial(elems, res) ==
    LET pending == { i \in 1..Len(elems) : elems[i].st = "Pending" }
        after   == [ i \in 1..Len(elems) |->
                       IF i \in pending
                       THEN [ elems[i] EXCEPT
                                !.st = CASE res[i] = "Ready" -> "Done"
                                         [] res[i] = "Err" -> "Failed"
                                         [] OTHER -> "Pending",
                                !.polled = TRUE ]
                       ELSE elems[i] ]
        kept    == SelectSeq(after, LAMBDA e : e.st = "Done")
    IN  IF \A i \in 1..Len(after) : after[i].st # "Pending"
        THEN [ out    |-> "Ready",
               polled |-> pending,
               elems  |-> << >>,
               items  |-> [ i \in 1..Len(kept) |->
                              [path |-> kept[i].path, svc |-> kept[i].svc] ],
               err    |-> << >> ]
        ELSE [ out    |-> "NotReady",
               polled |-> pending,
               elems  |-> after,
               items  |-> << >>,
               err    |-> << >> ]

\* variant of JoinAllPoll: the first error is returned at once but the
\* elements are kept
JoinAllPollKeep(elems, res) ==
    LET pending == { i \in 1..Len(elems) : elems[i].st = "Pending" }
        errs    == { i \in pending : res[i] = "Err" }
        after   == [ i \in 1..Len(elems) |->
                       IF i \in pending /\ (errs = {} \/ i < Min(errs))
                       THEN [ elems[i] EXCEPT
                                !.st = IF res[i] = "Ready" THEN "Done" ELSE "Pending",
                                !.polled = TRUE ]
                       ELSE elems[i] ]
    IN  IF errs # {}
        THEN [ out    |-> "Err",
               polled |-> { i \in pending : i <= Min(errs) },
               elems  |-> after,
               items  |-> << >>,
               err    |-> << ChildError(elems[Min(errs)].svc.make) >> ]
        ELSE IF \A i \in 1..Len(after) : after[i].st = "Done"
        THEN [ out    |-> "Ready",
               polled |-> pending,
               elems  |-> << >>,
               items  |-> [ i \in 1..Len(after) |->
                              [path |-> after[i].path, svc |-> after[i].svc] ],
               err    |-> << >> ]
        ELSE [ out    |-> "NotReady",
               polled |-> pending,
               elems  |-> after,
               items  |-> << >>,
               err    |-> << >> ]

\* variant of JoinAllPoll: with no element at all the future never resolves
JoinAllPollEmptyPending(elems, res) ==
    LET pending == { i \in 1..Len(elems) : elems[i].st = "Pending" }
        errs    == { i \in pending : res[i] = "Err" }
        after   == [ i \in 1..Len(elems) |->
                       IF i \in pending
                       THEN [ elems[i] EXCEPT
                                !.st = IF res[i] = "Ready" THEN "Done" ELSE "Pending",
                                !.polled = TRUE ]
                       ELSE elems[i] ]
    IN  IF errs # {}
        THEN [ out    |-> "Err",
               polled |-> { i \in pending : i <= Min(errs) },
               elems  |-> << >>,
               items  |-> << >>,
               err    |-> << ChildError(elems[Min(errs)].svc.make) >> ]
        ELSE IF elems # << >> /\ \A i \in 1..Len(after) : after[i].st = "Done"
        THEN [ out    |-> "Ready",
               polled |-> pending,
               elems  |-> << >>,
               items  |-> [ i \in 1..Len(after) |->
                              [path |-> after[i].path, svc |-> after[i].svc] ],
               err    |-> << >> ]
        ELSE [ out    |-> "NotReady",
               polled |-> pending,
               elems  |-> after,
               items  |-> << >>,
               err    |-> << >> ]

\* JoinAll::poll with res[i] the result of polling the i-th child future.
\* Elements are polled in order; the first error clears the elements and is
\* returned at once; otherwise the items are returned, in element order,
\* when every element is done.
JoinAllPoll(elems, res) ==
    LET pending == { i \in 1..Len(elems) : elems[i].st = "Pending" }
        errs    == { i \in pending : res[i] = "Err" }
    IN  IF errs # {}
        THEN [ out    |-> "Err",
               polled |-> { i \in pending : i <= Min(errs) },
               elems  |-> << >>,
               items  |-> << >>,
               err    |-> << ChildError(elems[Min(errs)].svc.make) >> ]
        ELSE LET after == [ i \in 1..Len(elems) |->
                              IF i \in pending
                              THEN [ elems[i] EXCEPT
                                       !.st = IF res[i] = "Ready" THEN "Done" ELSE "Pending",
                                       !.polled = TRUE ]
                              ELSE elems[i] ]
             IN  IF \A i \in 1..Len(after) : after[i].st = "Done"
                 THEN [ out    |-> "Ready",
                        polled |-> pending,
                        elems  |-> << >>,
                        items  |-> [ i \in 1..Len(after) |->
                                       [path |-> after[i].path, svc |-> after[i].svc] ],
                        err    |-> << >> ]
                 ELSE [ out    |-> "NotReady",
                        polled |-> pending,
                        elems  |-> after,
                        items  |-> << >>,
                        err    |-> << >> ]

\* variant of CompositeServiceOf: the items in reverse order
CompositeServiceReversed(items) ==
    [ i \in 1..Len(items) |-> items[Len(items) + 1 - i] ]

\* .map(|services| Ok(CompositeService(services))): the items become the
\* vector of the CompositeService
CompositeServiceOf(items) == items

(***************************************************************************)
(* CompositeService::call and NotFound::not_found.                         *)
(***************************************************************************)
\* variant of NotFoundResponse: the status is not set
NotFoundWithoutStatus == [kind |-> "ok", status |-> 200, body |-> "default"]

\* NotFound::not_found: Response::builder().status(NOT_FOUND).body(default)
NotFoundResponse == [kind |-> "ok", status |-> NOT_FOUND, body |-> "default"]

\* what the future of child service svc can resolve to: its own response or
\* its own error
ChildOutcomes(svc) ==
    { [kind |-> "ok", status |-> st, body |-> svc.make] : st \in ChildStatuses }
      \cup { [kind |-> "err", status |-> 0, body |-> svc.make] }

\* variant of Scan: the pair with the longest matching base path wins
RECURSIVE ScanLongest(_, _, _)
ScanLongest(entries, i, path) ==
    IF i > Len(entries) THEN 0
    ELSE LET rest == ScanLongest(entries, i + 1, path)
         IN  IF ~StartsWith(path, entries[i].path) THEN rest
             ELSE IF rest > 0 /\ Len(entries[rest].path) > Len(entries[i].path) THEN rest
             ELSE i

\* variant of Scan: the last matching pair wins
RECURSIVE ScanLast(_, _, _)
ScanLast(entries, i, path) ==
    IF i > Len(entries) THEN 0
    ELSE LET rest == ScanLast(entries, i + 1, path)
         IN  IF rest > 0 THEN rest
             ELSE IF StartsWith(path, entries[i].path) THEN i
             ELSE 0

\* the for loop of CompositeService::call from index i on: the index of the
\* first pair whose base path the request path starts with, 0 if there is none
RECURSIVE Scan(_, _, _)
Scan(entries, i, path) ==
    IF i > Len(entries) THEN 0
    ELSE IF StartsWith(path, entries[i].path) THEN i
    ELSE Scan(entries, i + 1, path)

\* variant of CompositeServiceCall: the loop does not return at the first
\* match, every matching child is called
CompositeServiceCallAll(entries, request) ==
    LET m == SelectSeq(entries, LAMBDA e : StartsWith(request.path, e.path))
    IN  IF m # << >>
        THEN [ calls   |-> [ i \in 1..Len(m) |-> [svc |-> m[i].svc, request |-> request] ],
               fut     |-> "child",
               held    |-> << m[1].svc >>,
               ready   |-> << >>,
               entries |-> entries ]
        ELSE [ calls   |-> << >>,
               fut     |-> "ready",
               held    |-> << >>,
               ready   |-> << NotFoundResponse >>,
               entries |-> entries ]

\* variant of CompositeServiceCall: the child's future is handed to the
\* executor and a future that only waits for its result is returned
CompositeServiceCallSpawned(entries, request) ==
    LET i == Scan(entries, 1, request.path)
    IN  IF i > 0
        THEN [ calls   |-> << [svc |-> entries[i].svc, request |-> request] >>,
               fut     |-> "child",
               held    |-> << >>,
               ready   |-> << >>,
               entries |-> entries ]
        ELSE [ calls   |-> << >>,
               fut     |-> "ready",
               held    |-> << >>,
               ready   |-> << NotFoundResponse >>,
               entries |-> entries ]

\* variant of CompositeServiceCall: the matched pair is moved to the front
\* of the vector
CompositeServiceCallMoveToFront(entries, request) ==
    LET i == Scan(entries, 1, request.path)
    IN  IF i > 0
        THEN [ calls   |-> << [svc |-> entries[i].svc, request |-> request] >>,
               fut     |-> "child",
               held    |-> << entries[i].svc >>,
               ready   |-> << >>,
               entries |-> << entries[i] >> \o RemoveAt(entries, i) ]
        ELSE [ calls   |-> << >>,
               fut     |-> "ready",
               held    |-> << >>,
               ready   |-> << NotFoundResponse >>,
               entries |-> entries ]

\* CompositeService::call: the child calls it makes, the future it returns
\* (either the matched child's own future or a ready not-found response),
\* the pending child futures the returned future owns, and the vector as the
\* call leaves it
CompositeServiceCall(entries, request) ==
    LET i == Scan(entries, 1, request.path)
    IN  IF i > 0
        THEN [ calls   |-> << [svc |-> entries[i].svc, request |-> request] >>,
               fut     |-> "child",
               held    |-> << entries[i].svc >>,
               ready   |-> << >>,
               entries |-> entries ]
        ELSE [ calls   |-> << >>,
               fut     |-> "ready",
               held    |-> << >>,
               ready   |-> << NotFoundResponse >>,
               entries |-> entries ]

\* variant of Returned: the child's response or error is wrapped in one of
\* the composite
ReturnedWrapped(outcome) == [ outcome EXCEPT !.body = "composite" ]

\* variant of Returned: a child's error is answered with not-found
ReturnedMasked(outcome) ==
    IF outcome.kind = "err" THEN NotFoundResponse ELSE outcome

\* return service.call(req): the returned future is the child's, so what it
\* resolves to is what the child's future resolves to
Returned(outcome) == outcome

(***************************************************************************)
(* State.                                                                  *)
(***************************************************************************)
IdleBuild ==
    [ st       |-> "idle",
      bid      |-> 0,
      target   |-> "none",
      snapshot |-> << >>,
      calls    |-> << >>,
      elems    |-> << >>,
      children |-> << >>,
      order    |-> << >>,
      service  |-> << >>,
      built    |-> << >>,
      overlap  |-> FALSE,
      err      |-> << >> ]

IdleReq ==
    [ st         |-> "idle",
      request    |-> [path |-> << >>],
      sel        |-> 0,
      calls      |-> << >>,
      held       |-> << >>,
      cancelled  |-> << >>,
      overlapped |-> FALSE,
      childOut   |-> << >>,
      resp       |-> << >> ]

Init ==
    /\ factory = MakeServiceNew
    /\ registered = << >>
    /\ build = IdleBuild
    /\ builds = 0
    /\ failedBuilds = {}
    /\ other = IdleBuild
    /\ req = IdleReq

(***************************************************************************)
(* The application configures the CompositeMakeService.                    *)
(***************************************************************************)
Register(path, make) ==
    /\ \A i \in 1..Len(factory) : factory[i].make # make
    /\ factory' = Push(factory, path, make)
    /\ registered' = Append(registered, [path |-> path, make |-> make])
    /\ UNCHANGED <<build, builds, failedBuilds, req, other>>

Unregister(j) ==
    /\ j \in 1..Len(factory)
    /\ factory' = Remove(factory, j)
    /\ registered' = SubSeq(registered, 1, j - 1) \o SubSeq(registered, j + 1, Len(registered))
    /\ UNCHANGED <<build, builds, failedBuilds, req, other>>

(***************************************************************************)
(* The transport calls CompositeMakeService::call and polls its future.    *)
(***************************************************************************)
\* the future CompositeMakeService::call returns for the vector `inner`,
\* with the history of the build: the vector at the call, the child calls
\* made, the state of each child build
StartBuild(inner, target, bid) ==
    LET elems == MakeServiceCall(inner, target, bid)
    IN  [ st       |-> "created",
          bid      |-> bid,
          target   |-> target,
          snapshot |-> inner,
          calls    |-> CallsOf(elems),
          elems    |-> elems,
          children |-> [ i \in 1..Len(elems) |->
                           IF elems[i].st = "Pending" THEN "pending"
                           ELSE "unstarted" ],
          order    |-> << >>,
          service  |-> << >>,
          built    |-> << >>,
          overlap  |-> FALSE,
          err      |-> << >> ]

\* the indices in S, in increasing order
RECURSIVE Ascending(_)
Ascending(S) ==
    IF S = {} THEN << >> ELSE << Min(S) >> \o Ascending(S \ {Min(S)})

\* the build future b after a poll in which polling the i-th child future
\* gives res[i]
PollBuild(b, res) ==
    LET r == JoinAllPoll(b.elems, res)
        n == Len(b.children)
        \* the child futures still held after the poll
        held == { i \in 1..Len(r.elems) : r.elems[i].st = "Pending" }
        status(i) ==
            IF b.children[i] # "pending" THEN b.children[i]
            ELSE IF i \in r.polled /\ res[i] = "Ready" THEN "done"
            ELSE IF i \in r.polled /\ res[i] = "Err" THEN "failed"
            ELSE IF i \in held THEN "pending"
            ELSE "dropped"
        completed == { i \in 1..n : b.children[i] = "pending"
                                    /\ status(i) \in {"done", "failed"} }
    IN  [ b EXCEPT
            !.st = CASE r.out = "Ready" -> "ok"
                     [] r.out = "Err" -> "err"
                     [] OTHER -> "waiting",
            !.elems = r.elems,
            !.children = [ i \in 1..n |-> status(i) ],
            !.order = b.order \o Ascending(completed),
            !.service = IF r.out = "Ready"
                        THEN << CompositeServiceOf(r.items) >>
                        ELSE << >>,
            !.built = IF r.out = "Ready"
                      THEN << CompositeServiceOf(r.items) >>
                      ELSE << >>,
            !.err = r.err ]

\* variant of JoinAllDrop: the child futures were handed to the executor
\* and go on without the build future
JoinAllDropDetached(elems) == elems

\* the build future is dropped before it has resolved: JoinAll owns its
\* elements, so every child future it still holds is dropped with it
JoinAllDrop(elems) == << >>

\* the build future b after the transport has dropped it unresolved
DropBuild(b) ==
    LET kept == JoinAllDrop(b.elems)
        held == { i \in 1..Len(kept) : kept[i].st = "Pending" }
    IN  [ b EXCEPT
            !.st = "cancelled",
            !.elems = kept,
            !.children = [ i \in 1..Len(b.children) |->
                             IF b.children[i] = "pending" /\ i \notin held
                             THEN "dropped" ELSE b.children[i] ] ]

BuildCall(target) ==
    /\ build.st = "idle"
    /\ builds < MaxBuilds
    /\ builds' = builds + 1
    /\ build' = [ StartBuild(factory, target, builds + 1) EXCEPT
                    !.overlap = other.st \in {"created", "waiting"} ]
    /\ UNCHANGED <<factory, registered, failedBuilds, req, other>>

BuildPoll(res) ==
    /\ build.st \in {"created", "waiting"}
    /\ build' = PollBuild(build, res)
    /\ failedBuilds' = IF build'.st = "err" THEN failedBuilds \cup {build.bid}
                       ELSE failedBuilds
    /\ UNCHANGED <<factory, registered, builds, req, other>>

\* the transport gives up the connection while the build is in progress
BuildCancel ==
    /\ build.st \in {"created", "waiting"}
    /\ build' = DropBuild(build)
    /\ UNCHANGED <<factory, registered, builds, failedBuilds, req, other>>

(***************************************************************************)
(* The transport calls CompositeService::call on the built service and     *)
(* awaits the returned future.                                             *)
(***************************************************************************)
HandleCall(path) ==
    /\ build.st = "ok"
    /\ req.st = "idle"
    /\ LET request == [path |-> path]
           c == CompositeServiceCall(build.service[1], request)
       IN  /\ req' = [ st         |-> IF c.fut = "child" THEN "forwarded" ELSE "done",
                       request    |-> request,
                       sel        |-> Scan(build.service[1], 1, path),
                       calls      |-> c.calls,
                       held       |-> c.held,
                       cancelled  |-> << >>,
                       overlapped |-> FALSE,
                       childOut   |-> << >>,
                       resp       |-> c.ready ]
           /\ build' = [ build EXCEPT !.service = << c.entries >> ]
    /\ UNCHANGED <<factory, registered, builds, failedBuilds, other>>

\* while the future of the request is pending, CompositeService::call is
\* invoked for another request of the same connection
OtherCall(path) ==
    /\ build.st = "ok"
    /\ req.st = "forwarded"
    /\ ~req.overlapped
    /\ LET c == CompositeServiceCall(build.service[1], [path |-> path])
       IN  build' = [ build EXCEPT !.service = << c.entries >> ]
    /\ req' = [ req EXCEPT !.overlapped = TRUE ]
    /\ UNCHANGED <<factory, registered, builds, failedBuilds, other>>

\* the future of the child service that was called resolves
ChildRespond(outcome) ==
    /\ req.st = "forwarded"
    /\ outcome \in ChildOutcomes(req.calls[1].svc)
    /\ req' = [ req EXCEPT !.st = "done",
                           !.held = << >>,
                           !.childOut = << outcome >>,
                           !.resp = << Returned(outcome) >> ]
    /\ UNCHANGED <<factory, registered, build, builds, failedBuilds, other>>

\* the transport drops the future of the request before it has resolved
\* (the client went away): the pending child futures it owns are dropped
\* with it
HandleCancel ==
    /\ req.st = "forwarded"
    /\ req' = [ req EXCEPT !.st = "cancelled",
                           !.held = << >>,
                           !.cancelled = req.held ]
    /\ UNCHANGED <<factory, registered, build, builds, failedBuilds, other>>

\* the transport has taken the response, or has dropped the request; the
\* next request can come
HandleDone ==
    /\ req.st \in {"done", "cancelled"}
    /\ req' = IdleReq
    /\ UNCHANGED <<factory, registered, build, builds, failedBuilds, other>>

\* the connection ends: what is left of the build future and its
\* CompositeService are dropped
Discard ==
    /\ build.st \in {"ok", "err", "cancelled"}
    /\ req.st = "idle"
    /\ build' = IdleBuild
    /\ UNCHANGED <<factory, registered, builds, failedBuilds, req, other>>

Next ==
    \/ \E path \in Prefixes, make \in ChildFactories : Register(path, make)
    \/ \E j \in 1..Len(factory) : Unregister(j)
    \/ \E target \in Targets : BuildCall(target)
    \/ \E res \in [1..Len(build.elems) -> PollResults] : BuildPoll(res)
    \/ BuildCancel
    \/ \E path \in Paths : HandleCall(path)
    \/ \E path \in Paths : OtherCall(path)
    \/ \E svc \in { c.svc : c \in Range(req.calls) } :
         \E outcome \in ChildOutcomes(svc) : ChildRespond(outcome)
    \/ HandleCancel
    \/ HandleDone
    \/ Discard

Spec == Init /\ [][Next]_vars

(***************************************************************************)
(* Two connections: CompositeMakeService::call is invoked for a second     *)
(* connection while the future of the first may still be pending. call     *)
(* takes &mut self and returns a future that borrows nothing of self, so   *)
(* the two futures are polled, resolved and dropped in any interleaving.   *)
(***************************************************************************)
InProgress(b) == b.st \in {"created", "waiting"}

OtherBuildCall(target) ==
    /\ other.st = "idle"
    /\ builds < MaxBuilds
    /\ builds' = builds + 1
    /\ other' = [ StartBuild(factory, target, builds + 1) EXCEPT
                    !.overlap = InProgress(build) ]
    /\ UNCHANGED <<factory, registered, build, failedBuilds, req>>

OtherBuildPoll(res) ==
    /\ InProgress(other)
    /\ other' = PollBuild(other, res)
    /\ failedBuilds' = IF other'.st = "err" THEN failedBuilds \cup {other.bid}
                       ELSE failedBuilds
    /\ UNCHANGED <<factory, registered, build, builds, req>>

OtherBuildCancel ==
    /\ InProgress(other)
    /\ other' = DropBuild(other)
    /\ UNCHANGED <<factory, registered, build, builds, failedBuilds, req>>

OtherDiscard ==
    /\ other.st \in {"ok", "err", "cancelled"}
    /\ other' = IdleBuild
    /\ UNCHANGED <<factory, registered, build, builds, failedBuilds, req>>

\* the vectors the application has configured before the connections come
Configured ==
    { v \in [1..Cardinality(ChildFactories) -> [path : Prefixes, make : ChildFactories]] :
        \A i, j \in DOMAIN v : v[i].make = v[j].make => i = j }

InitConc ==
    /\ factory \in Configured
    /\ registered = factory
    /\ build = IdleBuild
    /\ builds = 0
    /\ failedBuilds = {}
    /\ other = IdleBuild
    /\ req = IdleReq

NextConc ==
    \/ \E target \in Targets : BuildCall(target)
    \/ \E res \in [1..Len(build.elems) -> PollResults] : BuildPoll(res)
    \/ BuildCancel
    \/ Discard
    \/ \E target \in Targets : OtherBuildCall(target)
    \/ \E res \in [1..Len(other.elems) -> PollResults] : OtherBuildPoll(res)
    \/ OtherBuildCancel
    \/ OtherDiscard

SpecConc == InitConc /\ [][NextConc]_vars

(***************************************************************************)
(* Properties.                                                             *)
(***************************************************************************)
\* the vector of the CompositeService the finished build produced
Entries == build.service[1]

\* the indices of the pairs whose base path is a literal prefix of path
Matching(entries, path) ==
    { i \in 1..Len(entries) :
        /\ Len(entries[i].path) <= Len(path)
        /\ \A k \in 1..Len(entries[i].path) : entries[i].path[k] = path[k] }

\* a request has been given to CompositeService::call
Handled == req.st \in {"forwarded", "done"}

\* C1: the child that handle calls is the one of the pair with the smallest
\* index whose base path is a literal prefix of the request path, whether or
\* not a later pair has a longer matching base path, and no child is called
\* when no base path is a prefix.
C1_FirstMatchWins ==
    Handled =>
        LET m == Matching(Entries, req.request.path)
        IN  IF m = {}
            THEN req.sel = 0 /\ req.calls = << >>
            ELSE /\ req.sel = Min(m)
                 /\ Len(req.calls) >= 1
                 /\ req.calls[1].svc = Entries[Min(m)].svc

\* a request was routed to the first pair although a later pair matches with
\* a longer base path, and the base path ends inside a path segment
C1_Witness ==
    /\ Handled
    /\ req.sel = 1
    /\ req.request.path = <<"/", "a", "b">>
    /\ Entries[1].path = <<"/", "a">>
    /\ \E j \in 2..Len(Entries) : Entries[j].path = <<"/", "a", "b">>

\* C2: when no base path is a prefix of the request path, the future returned
\* by handle is ready with a successful response of status 404 and default
\* body, and no child was called.
C2_NotFound ==
    (Handled /\ Matching(Entries, req.request.path) = {}) =>
        /\ req.st = "done"
        /\ req.calls = << >>
        /\ req.childOut = << >>
        /\ Len(req.resp) = 1
        /\ req.resp[1].kind = "ok"
        /\ req.resp[1].status = 404
        /\ req.resp[1].body = "default"

\* a request that no pair of a non-empty vector matches was answered
C2_Witness ==
    /\ req.st = "done"
    /\ Len(Entries) = 2
    /\ Matching(Entries, req.request.path) = {}

\* C3: a build in which a child build failed ends in one error, holds no
\* CompositeService and no child service, and no child service of a failed
\* build is ever called.
C3_AllOrNothing ==
    /\ (\E i \in 1..Len(build.children) : build.children[i] = "failed") =>
          /\ build.st = "err"
          /\ build.service = << >>
          /\ build.elems = << >>
          /\ Len(build.err) = 1
    /\ (build.st = "err") <=> (build.st # "idle" /\ build.bid \in failedBuilds)
    /\ build.st = "ok" => Len(build.service) = 1
    /\ \A i \in 1..Len(req.calls) : req.calls[i].svc.bid \notin failedBuilds

\* a build of two children failed although one of them had succeeded
C3_Witness ==
    /\ build.st = "err"
    /\ \E i, j \in 1..Len(build.children) :
          build.children[i] = "done" /\ build.children[j] = "failed"

\* C4: the vector of the CompositeService of a successful build has one pair
\* per pair the CompositeMakeService held when call was invoked, the i-th
\* being the i-th base path with the service built by the i-th child, in
\* whatever order the child builds completed.
C4_OrderPreserved ==
    build.st = "ok" =>
        /\ Len(Entries) = Len(build.snapshot)
        /\ \A i \in 1..Len(build.snapshot) :
              /\ Entries[i].path = build.snapshot[i].path
              /\ Entries[i].svc.make = build.snapshot[i].make
              /\ Entries[i].svc.target = build.target
              /\ Entries[i].svc.bid = build.bid

\* a build succeeded whose second child completed before its first one, and
\* the vector of the CompositeMakeService has changed since the call
C4_Witness ==
    /\ build.st = "ok"
    /\ build.order = <<2, 1>>
    /\ build.snapshot[1].path # build.snapshot[2].path
    /\ factory # build.snapshot

\* C5: handle calls one child when some base path matches and none
\* otherwise, and the child of no other pair than the selected one is called.
C5_AtMostOneChild ==
    Handled =>
        /\ Len(req.calls) = IF Matching(Entries, req.request.path) = {} THEN 0 ELSE 1
        /\ \A i \in 1..Len(Entries) :
              i # req.sel => \A k \in 1..Len(req.calls) : req.calls[k].svc # Entries[i].svc

\* a request that two pairs match was forwarded
C5_Witness ==
    /\ Handled
    /\ Cardinality(Matching(Entries, req.request.path)) = 2
    /\ Len(req.calls) = 1

\* C6: the matched child receives the request as it was given to handle, and
\* what the future returned by handle resolves to is what the child's future
\* resolved to, response or error.
C6_ChildOutcomeUnchanged ==
    /\ req.st = "forwarded" =>
          /\ Len(req.calls) >= 1
          /\ req.calls[1].request = req.request
          /\ req.resp = << >>
    /\ (req.st = "done" /\ req.calls # << >>) =>
          /\ req.calls[1].request = req.request
          /\ Len(req.childOut) = 1
          /\ req.resp = req.childOut
          /\ req.childOut[1].body = req.calls[1].svc.make

\* a forwarded request ended with the error of the child
C6_Witness ==
    /\ req.st = "done"
    /\ req.calls # << >>
    /\ req.childOut[1].kind = "err"
    /\ req.resp[1].kind = "err"

\* the child services handle calls for a request with this path
Routed(entries, path) ==
    LET c == CompositeServiceCall(entries, [path |-> path])
    IN  [ k \in 1..Len(c.calls) |-> c.calls[k].svc ]

\* C7: taking out a pair whose base path equals that of an earlier pair
\* changes the routing of no request path.
C7_LaterDuplicateUnreachable ==
    build.st = "ok" =>
        \A j \in 2..Len(Entries) :
            (\E i \in 1..(j - 1) : Entries[i].path = Entries[j].path) =>
                \A path \in Paths :
                    Routed(RemoveAt(Entries, j), path) = Routed(Entries, path)

\* a request was routed by a vector whose second pair repeats the base path
\* of the first, and both match the request
C7_Witness ==
    /\ Handled
    /\ Len(Entries) = 2
    /\ Entries[1].path = Entries[2].path
    /\ req.sel = 1

\* C8: the vector of the CompositeMakeService is the pairs the caller pushed,
\* in call order, minus those the caller removed; it is empty at the start
\* and neither a build nor a request changes it.
C8_NoImplicitRemoval ==
    /\ factory = registered
    /\ \A i, j \in 1..Len(factory) : factory[i].make = factory[j].make => i = j

\* two pairs were pushed, a build succeeded and a request was answered
C8_Witness ==
    /\ Len(factory) = 2
    /\ build.st = "ok"
    /\ req.st = "done"

C10_FanOut ==
    /\ build.st \in {"created", "waiting"} =>
          /\ Len(build.calls) = Len(build.snapshot)
          /\ \A i \in 1..Len(build.snapshot) :
                /\ build.calls[i].make = build.snapshot[i].make
                /\ build.children[i] # "unstarted"
    /\ build.st = "waiting" =>
          \A i \in 1..Len(build.elems) :
              build.elems[i].st = "Pending" => build.elems[i].polled

\* the second child build has completed while the first is still pending
C10_Witness ==
    /\ build.st = "waiting"
    /\ Len(build.elems) = 2
    /\ build.children[1] = "pending"
    /\ build.children[2] = "done"

\* C11: when the build future is dropped before every child build has
\* completed, no child build of it stays pending, and the build holds and
\* exposes no CompositeService: none of its child services is ever called.
C11_CancelDropsChildren ==
    build.st = "cancelled" =>
        /\ \A i \in 1..Len(build.children) :
              build.children[i] \in {"done", "dropped"}
        /\ \A i \in 1..Len(build.elems) : build.elems[i].st # "Pending"
        /\ build.service = << >>
        /\ build.err = << >>
        /\ req.st = "idle"
        /\ \A i \in 1..Len(req.calls) : req.calls[i].svc.bid # build.bid

\* a build was dropped when one of its two child builds had completed and
\* the other had not
C11_Witness ==
    /\ build.st = "cancelled"
    /\ \E i, j \in 1..Len(build.children) :
          build.children[i] = "done" /\ build.children[j] = "dropped"

\* C12: when the transport drops the pending future of a forwarded request,
\* the pending work dropped is that of the one child that was called, no
\* called child is left running, no response is produced and the child of
\* no other pair is touched.
C12_CancelReachesChild ==
    req.st = "cancelled" =>
        /\ req.sel > 0
        /\ req.cancelled = << Entries[req.sel].svc >>
        /\ req.held = << >>
        /\ req.resp = << >>
        /\ \A k \in 1..Len(req.calls) : req.calls[k].svc \in Range(req.cancelled)
        /\ \A i \in 1..Len(Entries) :
              i # req.sel => Entries[i].svc \notin Range(req.cancelled)

\* a request forwarded to the first of two children was cancelled
C12_Witness ==
    /\ req.st = "cancelled"
    /\ Len(Entries) = 2
    /\ req.sel = 1
    /\ Len(req.cancelled) = 1

\* C13: request handling leaves the vector of the CompositeService as the
\* build delivered it, so every request, also one whose future is pending
\* while another request is dispatched, is routed by the first match in the
\* vector as built.
C13_DispatchWritesNothing ==
    build.st = "ok" =>
        /\ build.service = build.built
        /\ Handled =>
              LET m == Matching(build.built[1], req.request.path)
              IN  IF m = {} THEN req.calls = << >>
                  ELSE /\ Len(req.calls) = 1
                       /\ req.calls[1].svc = build.built[1][Min(m)].svc

\* a request was answered by a child although another request was
\* dispatched on the same service while it was pending
C13_Witness ==
    /\ req.st = "done"
    /\ req.overlapped
    /\ req.calls # << >>
    /\ Len(Entries) = 2
    /\ Entries[1].path # Entries[2].path

\* what a build future shows of its own children and context, whatever
\* happens to another build
OwnOutcome(b) ==
    /\ b.st = "ok" =>
          /\ \A i \in 1..Len(b.children) : b.children[i] = "done"
          /\ Len(b.service) = 1
          /\ Len(b.service[1]) = Len(b.snapshot)
          /\ \A i \in 1..Len(b.snapshot) :
                /\ b.service[1][i].path = b.snapshot[i].path
                /\ b.service[1][i].svc.make = b.snapshot[i].make
                /\ b.service[1][i].svc.target = b.target
                /\ b.service[1][i].svc.bid = b.bid
    /\ b.st = "err" =>
          \E i \in 1..Len(b.children) : b.children[i] = "failed"
    /\ b.st \in {"created", "waiting"} =>
          /\ Len(b.elems) = Len(b.snapshot)
          /\ \A i \in 1..Len(b.children) : b.children[i] \in {"pending", "done"}
          /\ \A i \in 1..Len(b.elems) : b.elems[i].svc.target = b.target
    /\ b.st = "cancelled" =>
          \A i \in 1..Len(b.children) : b.children[i] \in {"done", "dropped"}

\* C14: two builds on the same CompositeMakeService, in any interleaving,
\* each have the outcome of their own children: a successful one has the
\* full ordered vector built for its own target, a pending one loses no
\* child to the failure or cancellation of the other, and no step changes
\* both.
C14_BuildsIndependent ==
    /\ [](OwnOutcome(build) /\ OwnOutcome(other))
    /\ [](build.st # "idle" /\ other.st # "idle" => build.bid # other.bid)
    /\ [][build' = build \/ other' = other]_vars

\* one build succeeded for its target and a build for another target, in
\* progress at the same time, failed
C14_Witness ==
    /\ build.st = "ok"
    /\ other.st = "err"
    /\ build.overlap \/ other.overlap
    /\ build.target # other.target
    /\ Len(build.snapshot) = 2
    /\ Len(other.snapshot) = 2

\* C15: from the moment call has returned, the child MakeService::call
\* invocations of the build are one per pair of the vector, in vector
\* order, each with the target given to call, whatever becomes of the child
\* builds afterwards.
C15_EachChildCalledOnce ==
    build.st # "idle" =>
        build.calls = [ i \in 1..Len(build.snapshot) |->
                          [make |-> build.snapshot[i].make, target |-> build.target] ]

\* the first child build failed and the second child had been called all
\* the same
C15_Witness ==
    /\ build.st = "err"
    /\ build.children = <<"failed", "dropped">>
    /\ Len(build.calls) = 2
    /\ build.calls[2].make = build.snapshot[2].make

\* C16: an empty base path is accepted and is a prefix of every request
\* path: with such a pair in the vector every request is forwarded to a
\* child at or before it, the child of no later pair is called for any
\* path, and no request gets the composite's own not-found response.
C16_EmptyPrefixMatchesAll ==
    (build.st = "ok" /\ \E i \in 1..Len(Entries) : Entries[i].path = << >>) =>
        LET e == Min({ i \in 1..Len(Entries) : Entries[i].path = << >> })
        IN  /\ \A path \in Paths :
                  /\ Routed(Entries, path) # << >>
                  /\ \A j \in (e + 1)..Len(Entries) :
                        Entries[j].svc \notin Range(Routed(Entries, path))
            /\ Handled =>
                  /\ req.sel \in 1..e
                  /\ Len(req.calls) = 1
                  /\ req.calls[1].svc = Entries[req.sel].svc
                  /\ req.st = "done" => req.resp = req.childOut

\* a request that only the empty base path matches was answered by the
\* child registered with it, ahead of a second pair
C16_Witness ==
    /\ req.st = "done"
    /\ Len(Entries) = 2
    /\ Entries[1].path = << >>
    /\ Entries[2].path = <<"/", "a">>
    /\ req.request.path = <<"/", "b">>
    /\ req.sel = 1
    /\ req.resp = req.childOut

\* C17: a build on an empty vector calls no child, is never left waiting
\* and never fails; its first poll yields a CompositeService with an empty
\* vector, which answers every request with the not-found response.
C17_EmptyComposite ==
    (build.st # "idle" /\ build.snapshot = << >>) =>
        /\ build.calls = << >>
        /\ build.children = << >>
        /\ build.st \in {"created", "ok", "cancelled"}
        /\ build.st = "ok" =>
              /\ build.service = << << >> >>
              /\ Handled =>
                    /\ req.st = "done"
                    /\ req.calls = << >>
                    /\ req.resp = << [kind |-> "ok", status |-> 404, body |-> "default"] >>

\* a request was answered by the CompositeService built from an empty vector
C17_Witness ==
    /\ build.st = "ok"
    /\ build.snapshot = << >>
    /\ req.st = "done"

\* the (base path, child) pairs behind a vector of elements or of services
PairsOf(v) ==
    [ i \in 1..Len(v) |-> [path |-> v[i].path, make |-> v[i].svc.make] ]

\* C18: a build takes the vector as it is when call is invoked; a later push
\* or remove changes neither the elements of a build in progress nor the
\* vector of a CompositeService already built nor a request it is handling,
\* and the CompositeService a build delivers has the pairs of its call.
C18_SnapshotAtCall ==
    [][ /\ factory' # factory =>
              /\ build' = build
              /\ req' = req
        /\ (build.st = "idle" /\ build'.st = "created") =>
              /\ build'.snapshot = factory
              /\ PairsOf(build'.elems) = factory
        /\ (build.st # "idle" /\ build'.st # "idle") =>
              build'.snapshot = build.snapshot
        /\ build'.st = "ok" =>
              PairsOf(build'.service[1]) = build'.snapshot
      ]_vars

\* a request was forwarded to a child whose pair has been removed from the
\* CompositeMakeService since the build, another pair having been pushed
C18_Witness ==
    /\ build.st = "ok"
    /\ Handled
    /\ req.calls # << >>
    /\ factory # << >>
    /\ \A i \in 1..Len(factory) : factory[i].make # req.calls[1].svc.make
    /\ Len(build.snapshot) = 2

\* C19: with a single pair (p, child) in the vector, the build resolves as
\* the child's build does, with the child's error if it fails; a request
\* whose path starts with p goes unchanged to the child and resolves to the
\* child's response or error, and any other request gets not-found.
C19_SingleEntryIsChild ==
    Len(build.snapshot) = 1 =>
        LET p == build.snapshot[1].path
            child == [make |-> build.snapshot[1].make, target |-> build.target,
                      bid |-> build.bid]
        IN  /\ (build.st = "ok") <=> (build.children[1] = "done")
            /\ (build.st = "err") <=> (build.children[1] = "failed")
            /\ build.st = "err" => build.err = << [make |-> child.make] >>
            /\ build.st = "ok" => build.service = << << [path |-> p, svc |-> child] >> >>
            /\ Handled =>
                  IF Len(p) <= Len(req.request.path)
                     /\ \A k \in 1..Len(p) : p[k] = req.request.path[k]
                  THEN /\ req.calls = << [svc |-> child, request |-> req.request] >>
                       /\ req.st = "done" =>
                             /\ req.resp = req.childOut
                             /\ req.childOut[1].body = child.make
                  ELSE /\ req.st = "done"
                       /\ req.calls = << >>
                       /\ req.resp = << [kind |-> "ok", status |-> 404, body |-> "default"] >>

\* the single child answered 404 on its own account and that response, not
\* the composite's not-found, came back
C19_Witness ==
    /\ Len(build.snapshot) = 1
    /\ req.st = "done"
    /\ req.calls # << >>
    /\ req.resp[1].status = 404
    /\ req.resp[1].body = build.snapshot[1].make

====
